---- MODULE Spec2Model ----
(***************************************************************************)
(* A model of newsvid's video-assembly module (src/vid.py).                *)
(*                                                                         *)
(*   SpecProbe : get_duration / get_video_info, the wrappers around the    *)
(*               external inspector (ffprobe).                             *)
(*   SpecPlan  : create_video_list_file, the shuffle-and-repeat planner.   *)
(*   Spec      : combine_videos_with_audio together with the               *)
(*               add_scrolling_text call it makes.                         *)
(*                                                                         *)
(* Durations are whole numbers of seconds.  Every answer of an external    *)
(* program (exit status, printed text) is an input chosen by the           *)
(* environment.                                                            *)
(***************************************************************************)
EXTENDS Integers, Sequences, FiniteSets, TLC

\* Longest duration (seconds) the inspector reports for a clip.
MaxDur == 3
\* Largest number of content clips in the video directory.
MaxClips == 2
\* Largest number of clips handed to the planner.
MaxPlanClips == 3
\* Longest narration audio (seconds).
MaxAudio == 4
\* Largest planner target duration (seconds).
MaxTarget == 4
\* Cap on the length of the plan while the planner loops.
MaxPlanLen == 6
\* Longest script (characters).
MaxScript == 120
\* A font size other than the default one.
OtherFontSize == 24
\* Largest number of keywords handed to the downloader.
MaxKeywords == 2
\* Largest number of videos in a search result.
MaxVideos == 2
\* Largest number of videos asked for per keyword.
MaxPerKeyword == 2

\* Defaults written in the source.
DefaultWidth == 1920
DefaultHeight == 1080
DefaultTargetDuration == 60
DefaultFontSize == 36
MinDuration == 10
MaxDuration == 60

(***************************************************************************)
(* Python values                                                           *)
(***************************************************************************)
\* Optional[float]: None, or a number.
None == [none |-> TRUE, val |-> 0]
Some(d) == [none |-> FALSE, val |-> d]

\* Python truthiness of an Optional[float]: None and 0 are falsy.
Truthy(x) == ~x.none /\ x.val # 0

(***************************************************************************)
(* What the inspector can answer                                           *)
(***************************************************************************)
Durations == 0..MaxDur

\* Answer to the container-level query of get_duration: the exit status and
\* what stdout holds (a number, or text float() rejects such as "N/A" or "").
FormatAnswers(longest) ==
    {[rc |-> 1, text |-> "none", val |-> 0]}
    \cup {[rc |-> 0, text |-> "garbage", val |-> 0]}
    \cup {[rc |-> 0, text |-> "num", val |-> d] : d \in 0..longest}

FormatOutcomes == FormatAnswers(MaxDur)

\* A field of the JSON stream object: absent, text that does not parse as a
\* number, or a number.
Absent == [has |-> FALSE, num |-> FALSE, val |-> 0]
BadText == [has |-> TRUE, num |-> FALSE, val |-> 0]
Num(v) == [has |-> TRUE, num |-> TRUE, val |-> v]

Widths == {720, DefaultWidth}
Heights == {480, DefaultHeight}

NoStream == [duration |-> Absent, width |-> Absent, height |-> Absent]

\* Answer to the stream-level query of get_video_info:
\*   rc # 0                        the inspector failed
\*   json = "garbage"              stdout is not JSON
\*   json = "nokey"                a JSON object without "streams"
\*   json = "empty"                "streams": []
\*   json = "stream"               "streams": [ {...}, ... ]
StreamOutcomes ==
    {[rc |-> 1, json |-> "garbage", stream |-> NoStream]}
    \cup {[rc |-> 0, json |-> j, stream |-> NoStream] : j \in {"garbage", "nokey", "empty"}}
    \cup {[rc |-> 0, json |-> "stream",
           stream |-> [duration |-> d, width |-> w, height |-> h]] :
            d \in {Absent, BadText} \cup {Num(x) : x \in Durations},
            w \in {Absent, BadText} \cup {Num(x) : x \in Widths},
            h \in {Absent, BadText} \cup {Num(x) : x \in Heights}}

(***************************************************************************)
(* get_duration  (src/vid.py 36-62)                                        *)
(***************************************************************************)
\* subprocess.run(check=True) raises CalledProcessError on a non-zero exit,
\* float() raises ValueError on text; both are caught and give None.
get_duration(f) ==
    IF f.rc # 0 THEN None
    ELSE IF f.text # "num" THEN None
    ELSE Some(f.val)

get_audio_duration(f) == get_duration(f)

(***************************************************************************)
(* get_video_info  (src/vid.py 199-248)                                    *)
(***************************************************************************)
\* The record returned when an exception of the except clause is caught.
SentinelInfo ==
    [raised |-> "none", duration |-> Some(0),
     width |-> DefaultWidth, height |-> DefaultHeight]

\* An exception that leaves get_video_info.
Raised(e) ==
    [raised |-> e, duration |-> None, width |-> 0, height |-> 0]

\* info.get('streams', [{}])[0]: the default [{}] when the key is missing,
\* IndexError when the list is empty.
StreamInfo(s) == IF s.json = "nokey" THEN NoStream ELSE s.stream

\* The exceptions the except clause of get_video_info catches.
CaughtByProbe == {"CalledProcessError", "ValueError", "JSONDecodeError"}

\* Lines 230-232: the exception raised by the query, by the parsing of its
\* answer or by the [0] on the list of streams, "none" if there is none.
QueryException(s) ==
    IF s.rc # 0 THEN "CalledProcessError"
    ELSE IF s.json = "garbage" THEN "JSONDecodeError"
    ELSE IF s.json = "empty" THEN "IndexError"
    ELSE "none"

\* The first exception raised inside the try block, "none" if there is none:
\* after the query, float() of the duration (line 238), then int() of the
\* width and of the height (lines 242-243).  get_duration of line 236 raises
\* nothing.
ProbeException(s) ==
    IF QueryException(s) # "none" THEN QueryException(s)
    ELSE LET st == StreamInfo(s) IN
         IF st.duration.has /\ ~st.duration.num THEN "ValueError"
         ELSE IF st.width.has /\ ~st.width.num THEN "ValueError"
         ELSE IF st.height.has /\ ~st.height.num THEN "ValueError"
         ELSE "none"

\* s: the answer to the stream-level query; f: the answer to the
\* container-level query made by the fallback get_duration call.
get_video_info(s, f) ==
    LET e == ProbeException(s) IN
    IF e \in CaughtByProbe THEN SentinelInfo
    ELSE IF e # "none" THEN Raised(e)
    ELSE LET st == StreamInfo(s) IN
         [raised |-> "none",
          duration |-> IF ~st.duration.has THEN get_duration(f)
                       ELSE Some(st.duration.val),
          width |-> IF st.width.has THEN st.width.val ELSE DefaultWidth,
          height |-> IF st.height.has THEN st.height.val ELSE DefaultHeight]

(***************************************************************************)
(* State                                                                   *)
(***************************************************************************)
VARIABLES
    \* one call of get_video_info
    probe_pc,               \* "idle", "start", "fallback", "done"
    probe_stream,           \* the answer to the stream-level query
    probe_result,           \* what the call returned or raised
    \* one call of create_video_list_file
    plan_pc,                \* "idle", "start", "probe", "sum", "while", "for",
                            \* "returned", "raised"
    videos,                 \* the argument: a list of clip names (1..n)
    plan_target,            \* the argument target_duration
    video_info_list,        \* the probed info of each clip
    final_video_list,       \* the plan: indices into video_info_list
    current_duration,
    shuffled_videos,        \* what is left of the current pass
    plan_exc,               \* the exception that left the call, or "none"
    \* one run of combine_videos_with_audio
    pc,                     \* the position in the function
    intro_exists,           \* intro_video is given and the file exists
    n_files,                \* number of files glob finds in the video directory
    audio_exists,           \* audio_file is given and the file exists
    script_exists,          \* <output_dir>/script.txt exists
    has_intro,
    target_duration,
    temp_dir,               \* the temporary directory and the files in it
    scaled_intro,           \* FALSE for None, TRUE for the path
    scaled_videos,          \* indices of the normalized clips
    loop_i,                 \* the index of the running for loop
    intro_duration,
    total_content_duration,
    input_videos,           \* the inputs of the concatenation: Intro or a
                            \* clip index
    output,                 \* the file at <output_dir>/<output_file>
    calls,                  \* the encoder invocations so far, in order
    probes,                 \* the stages that invoked the inspector so far
    result,                 \* "running", "output_file" or "None"
    exc,                    \* the exception caught by lines 575-580
    \* the add_scrolling_text call of the run
    overlay_input,          \* the video it was called on, "none" if not called
    overlay_result,         \* "not_called", "running", "output_file", "None"
    temp_text_file,         \* TRUE while the file exists
    wrapped_text_file,      \* TRUE while the file exists
    script_content,         \* the number of characters of the script
    font_size,
    duration,               \* what get_duration returned at line 113
    scroll_speed,           \* pixels per second, a fraction
    video_width,
    chars_per_line,
    \* one call of search_and_download_videos
    dl_pc,                  \* "idle", "start", "search", "video", "get",
                            \* "write", "returned", "raised"
    env_key,                \* TRUE when PEXELS_API_KEY is set
    config,                 \* what app.yaml holds
    api_key,                \* the local api_key of line 173 is truthy
    keywords,
    per_keyword,
    keyword_i,              \* the index of the keyword the for loop is at
    videos_to_download,     \* what is left of the sample
    filepath,               \* the target path of the running download
    downloaded_videos,
    files,                  \* the directory: absent, partial or complete
    searched,               \* the keywords searched so far, in order
    attempt,                \* the last download that ended: path and result
    attempted,              \* downloads started for the keyword at hand
    suitable_n              \* suitable videos the last search returned

probeVars == <<probe_pc, probe_stream, probe_result>>
planVars == <<plan_pc, videos, plan_target, video_info_list, final_video_list,
              current_duration, shuffled_videos, plan_exc>>
runVars == <<pc, intro_exists, n_files, audio_exists, script_exists, has_intro,
             target_duration, temp_dir, scaled_intro, scaled_videos, loop_i,
             intro_duration, total_content_duration, input_videos, output,
             calls, probes, result, exc>>
scrollVars == <<script_content, font_size, duration, scroll_speed,
                video_width, chars_per_line>>
overlayVars == <<overlay_input, overlay_result, temp_text_file,
                 wrapped_text_file, scrollVars>>
downloadVars == <<dl_pc, env_key, config, api_key, keywords, per_keyword, keyword_i,
                  videos_to_download, filepath, downloaded_videos, files,
                  searched, attempt, attempted, suitable_n>>
vars == <<probeVars, planVars, runVars, overlayVars, downloadVars>>

NoResult == Raised("none")
NoStreamOutcome == [rc |-> 0, json |-> "nokey", stream |-> NoStream]
NoFormatOutcome == [rc |-> 1, text |-> "none", val |-> 0]

ProbeIdle ==
    /\ probe_pc = "idle"
    /\ probe_stream = NoStreamOutcome
    /\ probe_result = NoResult

PlanIdle ==
    /\ plan_pc = "idle"
    /\ videos = <<>>
    /\ plan_target = 0
    /\ video_info_list = <<>>
    /\ final_video_list = <<>>
    /\ current_duration = 0
    /\ shuffled_videos = <<>>
    /\ plan_exc = "none"

\* The temporary directory: whether it exists and the files in it.
NoDir == [exists |-> FALSE, files |-> {}]
EmptyDir == [exists |-> TRUE, files |-> {}]
WithFile(dir, name, i) == [dir EXCEPT !.files = @ \cup {<<name, i>>}]
NoFile == [state |-> "absent", content |-> "none"]

\* A fraction num/den; 0/1 before anything is computed.
Frac(n, d) == [num |-> n, den |-> d]

\* Nothing of the overlay has been computed yet.
ScrollIdle ==
    /\ script_content = 0
    /\ font_size = 0
    /\ duration = None
    /\ scroll_speed = Frac(0, 1)
    /\ video_width = 0
    /\ chars_per_line = 0

\* No run has started: every variable of the run but pc.
RunFresh ==
    /\ intro_exists = FALSE
    /\ n_files = 0
    /\ audio_exists = FALSE
    /\ script_exists = FALSE
    /\ has_intro = FALSE
    /\ target_duration = 0
    /\ temp_dir = NoDir
    /\ scaled_intro = FALSE
    /\ scaled_videos = <<>>
    /\ loop_i = 0
    /\ intro_duration = 0
    /\ total_content_duration = 0
    /\ input_videos = <<>>
    /\ output = NoFile
    /\ calls = <<>>
    /\ probes = {}
    /\ result = "running"
    /\ exc = "none"
    /\ overlay_input = "none"
    /\ overlay_result = "not_called"
    /\ temp_text_file = FALSE
    /\ wrapped_text_file = FALSE
    /\ ScrollIdle

RunIdle ==
    /\ pc = "idle"
    /\ RunFresh

(***************************************************************************)
(* Values of search_and_download_videos  (src/download.py)                 *)
(***************************************************************************)
\* The keywords tried; two of them give the same file name.
KeywordTexts == {"cat", "New York"}

\* Line 241: keyword.replace(' ', '_').lower().
Sanitize(keyword) ==
    CASE keyword = "cat" -> "cat"
      [] keyword = "New York" -> "new_york"

\* Lines 242-243: the target path <output_dir>/<keyword>_<id>_<quality>.mp4.
Path(keyword, id, quality) ==
    [keyword |-> Sanitize(keyword), id |-> id, quality |-> quality]

NoPath == [keyword |-> "none", id |-> 0, quality |-> "none"]

AllPaths ==
    {Path(k, i, q) : k \in KeywordTexts, i \in 1..MaxVideos, q \in {"hd", "sd"}}

\* The output directory with no video in it.
NoFiles == [p \in AllPaths |-> "absent"]

NoAttempt == [path |-> NoPath, result |-> "none"]

DownloadIdle ==
    /\ dl_pc = "idle"
    /\ env_key = FALSE
    /\ config = "dict"
    /\ api_key = FALSE
    /\ keywords = <<>>
    /\ per_keyword = 0
    /\ keyword_i = 0
    /\ videos_to_download = <<>>
    /\ filepath = NoPath
    /\ downloaded_videos = <<>>
    /\ files = NoFiles
    /\ searched = <<>>
    /\ attempt = NoAttempt
    /\ attempted = 0
    /\ suitable_n = 0

(***************************************************************************)
(* SpecProbe: one call of get_video_info                                   *)
(***************************************************************************)
InitProbe ==
    /\ probe_pc = "start"
    /\ probe_stream = NoStreamOutcome
    /\ probe_result = NoResult
    /\ PlanIdle
    /\ RunIdle
    /\ DownloadIdle

\* Does the call reach the fallback get_duration(video_file) of line 236?
\* Lines 235-236 come before int(width) and int(height) of lines 242-243, so
\* the second query is made whatever the width and the height hold.
NeedsFallback(s) ==
    /\ QueryException(s) = "none"
    /\ ~StreamInfo(s).duration.has

\* Lines 229-244 up to the duration lookup: the stream-level query runs and its
\* answer is parsed; the call ends here unless the fallback query is needed.
ProbeQuery ==
    /\ probe_pc = "start"
    /\ \E s \in StreamOutcomes :
         /\ probe_stream' = s
         /\ IF NeedsFallback(s)
            THEN /\ probe_pc' = "fallback"
                 /\ UNCHANGED probe_result
            ELSE /\ probe_pc' = "done"
                 /\ probe_result' = get_video_info(s, NoFormatOutcome)
    /\ UNCHANGED <<planVars, runVars, overlayVars, downloadVars>>

\* Line 236: the container-level query, then the return of lines 240-244.
ProbeFallback ==
    /\ probe_pc = "fallback"
    /\ \E f \in FormatOutcomes :
         probe_result' = get_video_info(probe_stream, f)
    /\ probe_pc' = "done"
    /\ UNCHANGED <<probe_stream, planVars, runVars, overlayVars, downloadVars>>

NextProbe == ProbeQuery \/ ProbeFallback

SpecProbe == InitProbe /\ [][NextProbe]_vars

(***************************************************************************)
(* SpecPlan: one call of create_video_list_file  (src/vid.py 250-317)      *)
(***************************************************************************)
\* Every list of as many draws from S, a clip possibly drawn twice.
Perms_WithReplacement(S) == [1..Cardinality(S) -> S]

RECURSIVE Perms(_)
\* Every order random.shuffle can leave the list 1..n in.
Perms(S) ==
    IF S = {} THEN {<<>>}
    ELSE UNION {{<<x>> \o p : p \in Perms(S \ {x})} : x \in S}

\* The inspector's answers the clips are probed with: a stream with
\* a duration, a failed query (the sentinel), a stream without duration whose
\* container-level query fails too (duration None), and an empty stream list
\* (IndexError).
ClipStreamOutcomes ==
    {[rc |-> 1, json |-> "garbage", stream |-> NoStream],
     [rc |-> 0, json |-> "empty", stream |-> NoStream],
     [rc |-> 0, json |-> "nokey", stream |-> NoStream]}
    \cup {[rc |-> 0, json |-> "stream",
           stream |-> [duration |-> Num(d), width |-> Num(DefaultWidth),
                       height |-> Num(DefaultHeight)]] : d \in Durations}

PlanTargets == (0 - 1)..MaxTarget

InitPlan ==
    /\ plan_pc = "start"
    /\ \E n \in 0..MaxPlanClips : videos = [k \in 1..n |-> k]
    /\ plan_target \in PlanTargets
    /\ video_info_list = <<>>
    /\ final_video_list = <<>>
    /\ current_duration = 0
    /\ shuffled_videos = <<>>
    /\ plan_exc = "none"
    /\ ProbeIdle
    /\ RunIdle
    /\ DownloadIdle

\* Line 273: `if not videos`.
NoVideos(v) == v = <<>>

\* Lines 273-274: an empty list returns (None, []) at once.
PlanStart ==
    /\ plan_pc = "start"
    /\ plan_pc' = IF NoVideos(videos) THEN "returned" ELSE "probe"
    /\ UNCHANGED <<videos, plan_target, video_info_list, final_video_list,
                   current_duration, shuffled_videos, plan_exc, probeVars, runVars, overlayVars,
                   downloadVars>>

\* Lines 278-282: one iteration of the probing loop.  An exception leaving
\* get_video_info leaves create_video_list_file too (nothing catches it).
PlanProbe ==
    /\ plan_pc = "probe"
    /\ Len(video_info_list) < Len(videos)
    /\ \E s \in ClipStreamOutcomes, f \in FormatOutcomes :
         LET info == get_video_info(s, f) IN
         IF info.raised # "none"
         THEN /\ plan_pc' = "raised"
              /\ plan_exc' = info.raised
              /\ UNCHANGED video_info_list
         ELSE /\ video_info_list' = Append(video_info_list, info)
              /\ plan_pc' = IF Len(video_info_list) + 1 = Len(videos)
                            THEN "sum" ELSE "probe"
              /\ UNCHANGED plan_exc
    /\ UNCHANGED <<videos, plan_target, final_video_list, current_duration,
                   shuffled_videos, probeVars, runVars, overlayVars,
                   downloadVars>>

\* Line 285: sum() over the durations raises TypeError when one is None.
SumRaises(infos) == \E k \in 1..Len(infos) : infos[k].duration.none

\* Lines 285-289.
PlanSum ==
    /\ plan_pc = "sum"
    /\ IF SumRaises(video_info_list)
       THEN /\ plan_pc' = "raised"
            /\ plan_exc' = "TypeError"
       ELSE /\ plan_pc' = "while"
            /\ UNCHANGED plan_exc
    /\ final_video_list' = <<>>
    /\ current_duration' = 0
    /\ UNCHANGED <<videos, plan_target, video_info_list, shuffled_videos,
                   probeVars, runVars, overlayVars, downloadVars>>

\* The loop condition off by one: the loop stops one second short.
LoopContinues_OffByOne(cur, target) == cur + 1 < target

\* The loop condition with <= for <: a pass is made for a target of 0.
LoopContinues_Inclusive(cur, target) == cur <= target

\* Line 292: the condition of the while loop.
LoopContinues(cur, target) == cur < target

\* The break left out: every pass runs to its end.
ReachedTarget_Never(cur, target) == FALSE

\* Line 302: the condition of the break.
ReachedTarget(cur, target) == cur >= target

\* Lines 292-295: the loop condition holds; a fresh shuffle of the whole list.
PlanShuffle ==
    /\ plan_pc = "while"
    /\ LoopContinues(current_duration, plan_target)
    /\ Len(final_video_list) < MaxPlanLen
    /\ shuffled_videos' \in Perms(1..Len(video_info_list))
    /\ plan_pc' = "for"
    /\ UNCHANGED <<videos, plan_target, video_info_list, final_video_list,
                   current_duration, plan_exc, probeVars, runVars, overlayVars,
                   downloadVars>>

\* Lines 297-303: one iteration of the for loop.
PlanAppend ==
    /\ plan_pc = "for"
    /\ shuffled_videos # <<>>
    /\ LET k == Head(shuffled_videos)
           cur == current_duration + video_info_list[k].duration.val
       IN /\ final_video_list' = Append(final_video_list, k)
          /\ current_duration' = cur
          /\ IF ReachedTarget(cur, plan_target) \/ Tail(shuffled_videos) = <<>>
             THEN /\ plan_pc' = "while"
                  /\ shuffled_videos' = <<>>
             ELSE /\ plan_pc' = "for"
                  /\ shuffled_videos' = Tail(shuffled_videos)
    /\ UNCHANGED <<videos, plan_target, video_info_list, plan_exc, probeVars, runVars, overlayVars,
                   downloadVars>>

\* Lines 305-317: the loop condition fails; the list file is written and
\* (path, final_video_list) returned.
PlanReturn ==
    /\ plan_pc = "while"
    /\ ~LoopContinues(current_duration, plan_target)
    /\ plan_pc' = "returned"
    /\ UNCHANGED <<videos, plan_target, video_info_list, final_video_list,
                   current_duration, shuffled_videos, plan_exc, probeVars, runVars, overlayVars,
                   downloadVars>>

NextPlan ==
    \/ PlanStart
    \/ PlanProbe
    \/ PlanSum
    \/ PlanShuffle
    \/ PlanAppend
    \/ PlanReturn

SpecPlan == InitPlan /\ [][NextPlan]_vars

RECURSIVE PlanDuration(_, _)
\* The summed duration of a plan (a list of indices into infos).
PlanDuration(plan, infos) ==
    IF plan = <<>> THEN 0
    ELSE infos[Head(plan)].duration.val + PlanDuration(Tail(plan), infos)

(***************************************************************************)
(* Spec: one run of combine_videos_with_audio  (src/vid.py 319-580)        *)
(***************************************************************************)
\* The normalized intro in input_videos; a content clip is its index >= 1.
Intro == 0

AudioOutcomes == FormatAnswers(MaxAudio)

\* One invocation of the encoder (ffmpeg) and whether it exited with 0.
Call(stage, ok) == [stage |-> stage, ok |-> ok]

\* subprocess.run of an encoder command returns or raises.
Invoke(stage, ok) ==
    /\ calls' = Append(calls, Call(stage, ok))
    /\ UNCHANGED probes

\* get_duration or get_video_info runs the inspector (ffprobe).
Inspect(stage) ==
    /\ probes' = probes \cup {stage}
    /\ UNCHANGED calls

Init ==
    /\ pc = "start"
    /\ intro_exists \in BOOLEAN
    /\ n_files \in 0..MaxClips
    /\ audio_exists \in BOOLEAN
    /\ script_exists \in BOOLEAN
    /\ has_intro = FALSE
    /\ target_duration = 0
    /\ temp_dir = NoDir
    /\ scaled_intro = FALSE
    /\ scaled_videos = <<>>
    /\ loop_i = 0
    /\ intro_duration = 0
    /\ total_content_duration = 0
    /\ input_videos = <<>>
    /\ output = NoFile
    /\ calls = <<>>
    /\ probes = {}
    /\ result = "running"
    /\ exc = "none"
    /\ overlay_input = "none"
    /\ overlay_result = "not_called"
    /\ temp_text_file = FALSE
    /\ wrapped_text_file = FALSE
    /\ ScrollIdle
    /\ ProbeIdle
    /\ PlanIdle
    /\ DownloadIdle

\* An exception reaches the handlers of lines 575-580: the with block is left,
\* which removes the temporary directory, and None is returned.
Abort(e) ==
    /\ exc' = e
    /\ result' = "None"
    /\ temp_dir' = NoDir
    /\ pc' = "done"

\* The check of line 369 left out: only the check of line 374 remains.
NoVideoFiles_Dropped(n) == FALSE

\* Line 369: `if not video_files`.
NoVideoFiles(n) == n = 0

\* Line 374: `len(video_files) < 1 and not has_intro`.
TooFewVideos(n, intro) == n < 1 /\ ~intro

\* Lines 354-380: the intro check, the directory listing and the early
\* returns.
RunStart ==
    /\ pc = "start"
    /\ has_intro' = intro_exists
    /\ IF NoVideoFiles(n_files) \/ TooFewVideos(n_files, intro_exists)
       THEN /\ result' = "None"
            /\ pc' = "done"
       ELSE /\ pc' = "audio"
            /\ UNCHANGED result
    /\ UNCHANGED <<intro_exists, n_files, audio_exists, script_exists,
                   target_duration, temp_dir, scaled_intro, scaled_videos,
                   loop_i, intro_duration, total_content_duration,
                   input_videos, output, calls, probes, exc, overlayVars, probeVars,
                   planVars, downloadVars>>

\* The audio used without checking that the file exists.
AudioAvailable_Unchecked(exists) == TRUE

\* Lines 384 and 531: `audio_file and os.path.exists(...)`.
AudioAvailable(exists) == exists

\* The position after the intro has been dealt with: the scaling loop, or
\* what follows it when there is nothing to loop over.
AfterIntro == IF n_files = 0 THEN "intro_duration" ELSE "scale_probe"

\* Lines 383-397: the target duration from the audio (60 when there is none or
\* its duration is unknown), then the temporary directory is created.
RunTargetDuration ==
    /\ pc = "audio"
    /\ IF AudioAvailable(audio_exists)
       THEN \E f \in AudioOutcomes :
              LET audio_duration == get_audio_duration(f) IN
              /\ target_duration' = IF Truthy(audio_duration)
                                    THEN audio_duration.val
                                    ELSE DefaultTargetDuration
              /\ Inspect("audio_duration")
       ELSE /\ target_duration' = DefaultTargetDuration
            /\ UNCHANGED <<calls, probes>>
    /\ temp_dir' = EmptyDir
    /\ pc' = IF has_intro THEN "intro" ELSE AfterIntro
    /\ loop_i' = 1
    /\ UNCHANGED <<intro_exists, n_files, audio_exists, script_exists,
                   has_intro, scaled_intro, scaled_videos, intro_duration,
                   total_content_duration, input_videos, output, result, exc,
                   overlayVars, probeVars, planVars, downloadVars>>

\* Lines 400-419: the intro is normalized; check=True turns a non-zero exit
\* into CalledProcessError.
RunIntro ==
    /\ pc = "intro"
    /\ \E ok \in BOOLEAN :
         /\ Invoke("intro_normalize", ok)
         /\ IF ok
            THEN /\ scaled_intro' = TRUE
                 /\ temp_dir' = WithFile(temp_dir, "scaled_intro", 0)
                 /\ pc' = AfterIntro
                 /\ UNCHANGED <<result, exc>>
            ELSE /\ Abort("CalledProcessError")
                 /\ UNCHANGED scaled_intro
    /\ UNCHANGED <<intro_exists, n_files, audio_exists, script_exists,
                   has_intro, target_duration, scaled_videos, loop_i,
                   intro_duration, total_content_duration, input_videos,
                   output, overlayVars, probeVars, planVars, downloadVars>>

\* Line 424: the source clip is probed; the info is not used, but an
\* exception leaving get_video_info ends the run.
RunScaleProbe ==
    /\ pc = "scale_probe"
    /\ loop_i <= n_files
    /\ \E s \in ClipStreamOutcomes, f \in FormatOutcomes :
         LET video_info == get_video_info(s, f) IN
         /\ Inspect("clip_probe")
         /\ IF video_info.raised # "none"
            THEN Abort(video_info.raised)
            ELSE /\ pc' = "scale"
                 /\ UNCHANGED <<result, exc, temp_dir>>
    /\ UNCHANGED <<intro_exists, n_files, audio_exists, script_exists,
                   has_intro, target_duration, scaled_intro, scaled_videos,
                   loop_i, intro_duration, total_content_duration,
                   input_videos, output, overlayVars, probeVars, planVars,
                   downloadVars>>

\* Lines 427-446: the clip is normalized and joins scaled_videos.
RunScale ==
    /\ pc = "scale"
    /\ \E ok \in BOOLEAN :
         /\ Invoke("clip_normalize", ok)
         /\ IF ok
            THEN /\ scaled_videos' = Append(scaled_videos, loop_i)
                 /\ temp_dir' = WithFile(temp_dir, "scaled", loop_i)
                 /\ loop_i' = IF loop_i = n_files THEN 1 ELSE loop_i + 1
                 /\ pc' = IF loop_i = n_files THEN "intro_duration"
                          ELSE "scale_probe"
                 /\ UNCHANGED <<result, exc>>
            ELSE /\ Abort("CalledProcessError")
                 /\ UNCHANGED <<scaled_videos, loop_i>>
    /\ UNCHANGED <<intro_exists, n_files, audio_exists, script_exists,
                   has_intro, target_duration, scaled_intro, intro_duration,
                   total_content_duration, input_videos, output, overlayVars,
                   probeVars, planVars, downloadVars>>

\* The position after the intro's duration is known.
AfterIntroDuration ==
    IF scaled_videos = <<>> THEN "compose" ELSE "content_duration"

\* Lines 449-453: the duration of the normalized intro.  A duration of None
\* makes the format specification of line 453 raise TypeError.
RunIntroDuration ==
    /\ pc = "intro_duration"
    /\ IF scaled_intro
       THEN \E s \in ClipStreamOutcomes, f \in FormatOutcomes :
              LET intro_info == get_video_info(s, f) IN
              /\ Inspect("intro_duration")
              /\ IF intro_info.raised # "none"
                 THEN /\ Abort(intro_info.raised)
                      /\ UNCHANGED intro_duration
                 ELSE IF intro_info.duration.none
                 THEN /\ Abort("TypeError")
                      /\ UNCHANGED intro_duration
                 ELSE /\ intro_duration' = intro_info.duration.val
                      /\ pc' = AfterIntroDuration
                      /\ UNCHANGED <<result, exc, temp_dir>>
       ELSE /\ intro_duration' = 0
            /\ pc' = AfterIntroDuration
            /\ UNCHANGED <<calls, probes, result, exc, temp_dir>>
    /\ UNCHANGED <<intro_exists, n_files, audio_exists, script_exists,
                   has_intro, target_duration, scaled_intro, scaled_videos,
                   loop_i, total_content_duration, input_videos, output,
                   overlayVars, probeVars, planVars, downloadVars>>

\* Lines 456-459: one iteration of the loop that sums the durations of the
\* normalized clips.  Adding None raises TypeError.
RunContentDuration ==
    /\ pc = "content_duration"
    /\ loop_i <= Len(scaled_videos)
    /\ \E s \in ClipStreamOutcomes, f \in FormatOutcomes :
         LET video_info == get_video_info(s, f) IN
         /\ Inspect("content_duration")
         /\ IF video_info.raised # "none"
            THEN /\ Abort(video_info.raised)
                 /\ UNCHANGED <<total_content_duration, loop_i>>
            ELSE IF video_info.duration.none
            THEN /\ Abort("TypeError")
                 /\ UNCHANGED <<total_content_duration, loop_i>>
            ELSE /\ total_content_duration' =
                      total_content_duration + video_info.duration.val
                 /\ loop_i' = loop_i + 1
                 /\ pc' = IF loop_i = Len(scaled_videos) THEN "compose"
                          ELSE "content_duration"
                 /\ UNCHANGED <<result, exc, temp_dir>>
    /\ UNCHANGED <<intro_exists, n_files, audio_exists, script_exists,
                   has_intro, target_duration, scaled_intro, scaled_videos,
                   intro_duration, input_videos, output, overlayVars,
                   probeVars, planVars, downloadVars>>

\* The quotient rounded down.
CeilDiv_Floor(a, b) == a \div b

\* math.ceil(a / b) for a > 0, b > 0.
CeilDiv(a, b) == (a + b - 1) \div b

RECURSIVE Repeat(_, _)
\* The list s extended k times onto the empty list.
Repeat(s, k) == IF k <= 0 THEN <<>> ELSE s \o Repeat(s, k - 1)

\* Lines 465-488: the inputs of the concatenation.
ComposeInputs(intro, clips, introDur, contentDur, target) ==
    LET first == IF intro THEN <<Intro>> ELSE <<>>
        remaining_duration == target - introDur
    IN IF contentDur > 0 /\ remaining_duration > 0
       THEN IF contentDur < remaining_duration
            THEN first \o Repeat(clips, CeilDiv(remaining_duration, contentDur))
            ELSE first \o clips
       ELSE IF clips # <<>> THEN clips
       ELSE first

\* Lines 465-488.
RunCompose ==
    /\ pc = "compose"
    /\ input_videos' = ComposeInputs(scaled_intro, scaled_videos,
                                     intro_duration, total_content_duration,
                                     target_duration)
    /\ pc' = "concat"
    /\ UNCHANGED <<intro_exists, n_files, audio_exists, script_exists,
                   has_intro, target_duration, temp_dir, scaled_intro,
                   scaled_videos, loop_i, intro_duration,
                   total_content_duration, output, calls, probes, result, exc,
                   overlayVars, probeVars, planVars, downloadVars>>

\* Lines 490-527: the concatenation writes temp_combined.mp4.
RunConcat ==
    /\ pc = "concat"
    /\ \E ok \in BOOLEAN :
         /\ Invoke("concat", ok)
         /\ IF ok
            THEN /\ temp_dir' = WithFile(temp_dir, "temp_combined", 0)
                 /\ pc' = "mux"
                 /\ UNCHANGED <<result, exc>>
            ELSE Abort("CalledProcessError")
    /\ UNCHANGED <<intro_exists, n_files, audio_exists, script_exists,
                   has_intro, target_duration, scaled_intro, scaled_videos,
                   loop_i, intro_duration, total_content_duration,
                   input_videos, output, overlayVars, probeVars, planVars,
                   downloadVars>>

\* Lines 530-557: the audio is added, writing video_with_audio.mp4; then the
\* script file decides between the overlay and the copy.
RunMux ==
    /\ pc = "mux"
    /\ AudioAvailable(audio_exists)
    /\ \E ok \in BOOLEAN :
         /\ Invoke("mux", ok)
         /\ IF ok
            THEN /\ temp_dir' = WithFile(temp_dir, "video_with_audio", 0)
                 /\ pc' = IF script_exists THEN "overlay" ELSE "copy_muxed"
                 /\ UNCHANGED <<result, exc>>
            ELSE Abort("CalledProcessError")
    /\ UNCHANGED <<intro_exists, n_files, audio_exists, script_exists,
                   has_intro, target_duration, scaled_intro, scaled_videos,
                   loop_i, intro_duration, total_content_duration,
                   input_videos, output, overlayVars, probeVars, planVars,
                   downloadVars>>

\* Lines 562-566: no script file; video_with_audio.mp4 is copied to the
\* output path.
RunCopyMuxed ==
    /\ pc = "copy_muxed"
    /\ output' = [state |-> "complete", content |-> "muxed"]
    /\ pc' = "return"
    /\ UNCHANGED <<intro_exists, n_files, audio_exists, script_exists,
                   has_intro, target_duration, temp_dir, scaled_intro,
                   scaled_videos, loop_i, intro_duration,
                   total_content_duration, input_videos, calls, probes, result, exc,
                   overlayVars, probeVars, planVars, downloadVars>>

\* Lines 567-571: no audio; temp_combined.mp4 is copied to the output path.
RunCopySilent ==
    /\ pc = "mux"
    /\ ~AudioAvailable(audio_exists)
    /\ output' = [state |-> "complete", content |-> "silent"]
    /\ pc' = "return"
    /\ UNCHANGED <<intro_exists, n_files, audio_exists, script_exists,
                   has_intro, target_duration, temp_dir, scaled_intro,
                   scaled_videos, loop_i, intro_duration,
                   total_content_duration, input_videos, calls, probes, result, exc,
                   overlayVars, probeVars, planVars, downloadVars>>

\* Line 573: the with block is left, which removes the temporary directory,
\* and output_file is returned.
RunReturn ==
    /\ pc = "return"
    /\ temp_dir' = NoDir
    /\ result' = "output_file"
    /\ pc' = "done"
    /\ UNCHANGED <<intro_exists, n_files, audio_exists, script_exists,
                   has_intro, target_duration, scaled_intro, scaled_videos,
                   loop_i, intro_duration, total_content_duration,
                   input_videos, output, calls, probes, exc, overlayVars, probeVars,
                   planVars, downloadVars>>

(***************************************************************************)
(* add_scrolling_text  (src/vid.py 78-197)                                 *)
(***************************************************************************)
FracTimes(a, b) == Frac(a.num * b.num, a.den * b.den)
FracOver(a, b) == Frac(a.num * b.den, a.den * b.num)

\* The script lengths and the font sizes tried.
ScriptLengths == {0, 50, MaxScript}
FontSizes == {OtherFontSize, DefaultFontSize}

\* The estimate rounded up to whole lines.
EstimatedLines_Rounded(chars) == Frac(CeilDiv(chars, 50), 1)

\* Line 121: len(script_content) / 50.
EstimatedLines(chars) == Frac(chars, 50)

\* Lines 121-123: the scroll height is estimated_lines * font_size * 1.5 and
\* the scroll speed is the scroll height over the duration.
ScrollSpeed(chars, size, dur) ==
    LET estimated_lines == EstimatedLines(chars)
        scroll_height ==
            FracTimes(FracTimes(estimated_lines, Frac(size, 1)), Frac(3, 2))
    IN FracOver(scroll_height, Frac(dur, 1))

\* The largest power of two that is not above n (n >= 1).
RECURSIVE Pow2Below(_)
Pow2Below(n) == IF n < 2 THEN 1 ELSE 2 * Pow2Below(n \div 2)

\* Line 135: int(video_width * 0.7), in double precision.  The double 0.7 is
\* 0.7 - 0.2 * 2^-52, so for a width 10 * k the exact product lies
\* 2 * k * 2^-52 below the integer 7 * k; it is rounded to a double, and the
\* doubles below 7 * k are 2^p * 2^-52 apart, 2^p being the largest power of
\* two not above 7 * k.  The product is rounded up to 7 * k when it lies at
\* most half that step below it (a tie goes to 7 * k, whose significand is
\* even), and int() then gives 7 * k; otherwise int() gives 7 * k - 1.  For
\* the other widths the product is at least 0.1 away from an integer and
\* int() gives the floor of 7 * width / 10.
TextWidth(width) ==
    LET exact == (width * 7) \div 10 IN
    IF width > 0 /\ width % 10 = 0
                 /\ 4 * (width \div 10) > Pow2Below(exact)
    THEN exact - 1
    ELSE exact

\* Line 139: int(text_width / (font_size * 0.6)); in double precision the
\* value is the floor of the exact quotient for every font size below 200
\* and every text width below 3000.
CharsPerLine(text_width, size) == (text_width * 10) \div (size * 6)

\* The handler of lines 189-197 returns None after removing the text files.
OverlayFails ==
    /\ overlay_result' = "None"
    /\ temp_text_file' = FALSE
    /\ wrapped_text_file' = FALSE

\* Lines 101-110: the script is read and written to a first temporary text
\* file.
OverlayEnter(video, size) ==
    /\ overlay_input' = video
    /\ font_size' = size
    /\ overlay_result' = "running"
    /\ \E chars \in ScriptLengths : script_content' = chars
    /\ temp_text_file' = TRUE
    /\ pc' = "overlay_duration"
    /\ UNCHANGED <<intro_exists, n_files, audio_exists, script_exists,
                   has_intro, target_duration, temp_dir, scaled_intro,
                   scaled_videos, loop_i, intro_duration,
                   total_content_duration, input_videos, output, calls, probes,
                   result, exc, wrapped_text_file, duration, scroll_speed,
                   video_width, chars_per_line, probeVars, planVars,
                   downloadVars>>

\* Lines 101-104 and 189-197: open() or read() raises when the script cannot
\* be read (a directory, no permission, bytes that are not text); the handler
\* has no text file to remove and returns None.
OverlayUnreadable(video, size) ==
    /\ overlay_input' = video
    /\ font_size' = size
    /\ overlay_result' = "None"
    /\ pc' = "return"
    /\ UNCHANGED <<intro_exists, n_files, audio_exists, script_exists,
                   has_intro, target_duration, temp_dir, scaled_intro,
                   scaled_videos, loop_i, intro_duration,
                   total_content_duration, input_videos, output, calls, probes,
                   result, exc, temp_text_file, wrapped_text_file,
                   script_content, duration, scroll_speed, video_width,
                   chars_per_line, probeVars, planVars, downloadVars>>

\* Lines 558-560: the call on video_with_audio.mp4, with the default font
\* size; script.txt exists, and can be read or not.  The caller ignores the
\* value returned and goes on to line 573.
OverlayOpen ==
    /\ pc = "overlay"
    /\ \E readable \in BOOLEAN :
         IF readable
         THEN OverlayEnter("video_with_audio", DefaultFontSize)
         ELSE OverlayUnreadable("video_with_audio", DefaultFontSize)

\* Lines 113-123: `if not duration` returns None from inside the try block,
\* so the handler's cleanup does not run; otherwise the scroll speed is
\* computed.  The caller at line 560 ignores the value returned and goes on
\* to line 573.
OverlayDuration ==
    /\ pc = "overlay_duration"
    /\ \E f \in FormatOutcomes :
         /\ duration' = get_duration(f)
         /\ Inspect("overlay_duration")
         /\ IF ~Truthy(duration')
            THEN /\ overlay_result' = "None"
                 /\ pc' = "return"
                 /\ UNCHANGED scroll_speed
            ELSE /\ scroll_speed' =
                      ScrollSpeed(script_content, font_size, duration'.val)
                 /\ pc' = "overlay_info"
                 /\ UNCHANGED overlay_result
    /\ UNCHANGED <<intro_exists, n_files, audio_exists, script_exists,
                   has_intro, target_duration, temp_dir, scaled_intro,
                   scaled_videos, loop_i, intro_duration,
                   total_content_duration, input_videos, output, result, exc,
                   overlay_input, temp_text_file, wrapped_text_file,
                   script_content, font_size, video_width, chars_per_line,
                   probeVars, planVars, downloadVars>>

\* Lines 126-145: the dimensions are probed and the wrapped text file is
\* written.  get_video_info returns a non-empty dict or raises; the exception
\* is caught by line 189.
OverlayInfo ==
    /\ pc = "overlay_info"
    /\ \E s \in StreamOutcomes, f \in FormatOutcomes :
         LET video_info == get_video_info(s, f) IN
         /\ Inspect("overlay_info")
         /\ IF video_info.raised # "none"
            THEN /\ OverlayFails
                 /\ pc' = "return"
                 /\ UNCHANGED <<video_width, chars_per_line>>
            ELSE /\ video_width' = video_info.width
                 /\ chars_per_line' =
                      CharsPerLine(TextWidth(video_width'), font_size)
                 /\ wrapped_text_file' = TRUE
                 /\ pc' = "overlay_encode"
                 /\ UNCHANGED <<overlay_result, temp_text_file>>
    /\ UNCHANGED <<intro_exists, n_files, audio_exists, script_exists,
                   has_intro, target_duration, temp_dir, scaled_intro,
                   scaled_videos, loop_i, intro_duration,
                   total_content_duration, input_videos, output, result, exc,
                   overlay_input, script_content, font_size, duration,
                   scroll_speed, probeVars, planVars, downloadVars>>

\* Lines 147-182: the first text file is removed and the encoder starts
\* writing its output file, which is the output_path line 560 handed over.
OverlayEncodeStart ==
    /\ pc = "overlay_encode"
    /\ temp_text_file' = FALSE
    /\ output' = [state |-> "partial", content |-> "captioned"]
    /\ pc' = "overlay_encoding"
    /\ UNCHANGED <<intro_exists, n_files, audio_exists, script_exists,
                   has_intro, target_duration, temp_dir, scaled_intro,
                   scaled_videos,
                   loop_i, intro_duration, total_content_duration,
                   input_videos, calls, probes, result, exc, overlay_input,
                   overlay_result, wrapped_text_file, scrollVars, probeVars,
                   planVars, downloadVars>>

\* Lines 182-187 and 189-197: the encoder exits.  With 0 the wrapped text file
\* is removed and output_file returned; otherwise the handler of line 189
\* catches CalledProcessError and returns None, and the file the encoder was
\* writing keeps what was written (possibly nothing).  The caller ignores the
\* value returned.
OverlayEncodeEnd ==
    /\ pc = "overlay_encoding"
    /\ \E ok \in BOOLEAN :
         /\ Invoke("overlay_encode", ok)
         /\ IF ok
            THEN /\ overlay_result' = "output_file"
                 /\ wrapped_text_file' = FALSE
                 /\ UNCHANGED temp_text_file
                 /\ output' = [state |-> "complete", content |-> "captioned"]
            ELSE /\ OverlayFails
                 /\ output' \in {output, NoFile}
    /\ pc' = "return"
    /\ UNCHANGED <<intro_exists, n_files, audio_exists, script_exists,
                   has_intro, target_duration, temp_dir, scaled_intro,
                   scaled_videos, loop_i, intro_duration,
                   total_content_duration, input_videos, result, exc,
                   overlay_input, scrollVars, probeVars, planVars,
                   downloadVars>>

Next ==
    \/ RunStart
    \/ RunTargetDuration
    \/ RunIntro
    \/ RunScaleProbe
    \/ RunScale
    \/ RunIntroDuration
    \/ RunContentDuration
    \/ RunCompose
    \/ RunConcat
    \/ RunMux
    \/ RunCopyMuxed
    \/ RunCopySilent
    \/ OverlayOpen
    \/ OverlayDuration
    \/ OverlayInfo
    \/ OverlayEncodeStart
    \/ OverlayEncodeEnd
    \/ RunReturn

Spec == Init /\ [][Next]_vars

(***************************************************************************)
(* SpecOverlay: one call of add_scrolling_text, with any font size         *)
(***************************************************************************)
InitOverlay ==
    /\ pc = "call"
    /\ RunFresh
    /\ ProbeIdle
    /\ PlanIdle
    /\ DownloadIdle

\* Lines 78 and 101-110: the call, on a script that can be read or not.
OverlayCall ==
    /\ pc = "call"
    /\ \E size \in FontSizes, readable \in BOOLEAN :
         IF readable
         THEN OverlayEnter("input_video", size)
         ELSE OverlayUnreadable("input_video", size)

NextOverlay ==
    \/ OverlayCall
    \/ OverlayDuration
    \/ OverlayInfo
    \/ OverlayEncodeStart
    \/ OverlayEncodeEnd

SpecOverlay == InitOverlay /\ [][NextOverlay]_vars

(***************************************************************************)
(* SpecDownload: one call of search_and_download_videos                    *)
(*                                            (src/download.py 140-320)    *)
(***************************************************************************)
\* The "duration" of a video of the search result: missing, too short, as
\* long as allowed, too long.
DurationSamples ==
    {None, Some(MinDuration - 1), Some(MaxDuration), Some(MaxDuration + 1)}

\* An entry of "video_files"; link is FALSE when the entry has no "link".
File(quality, file_type, link) ==
    [quality |-> quality, file_type |-> file_type, link |-> link]

Mp4(quality) == File(quality, "video/mp4", TRUE)

\* "video_files": null.
NoFileList == [none |-> TRUE, val |-> <<>>]

\* The "video_files" of a video of the search result.
FileLists ==
    {NoFileList}
    \cup {[none |-> FALSE, val |-> l] :
             l \in {<<>>,
                    <<Mp4("sd"), Mp4("hd")>>,
                    <<File("hd", "video/webm", TRUE), Mp4("sd")>>,
                    <<File("hd", "video/mp4", FALSE), Mp4("sd")>>,
                    <<File("hd", "video/mp4", FALSE)>>}}

\* The "videos" of a search result: the video at position i has id i.
VideoLists ==
    UNION {{[i \in 1..n |-> [id |-> i, duration |-> d[i],
                             video_files |-> f[i]]] :
                d \in [1..n -> DurationSamples], f \in [1..n -> FileLists]} :
           n \in 0..MaxVideos}

\* What the search request gives: an exception of the requests library (a
\* network error, an HTTP error status), a JSON object with or without
\* "videos", or a JSON object whose "videos" holds an entry that is not an
\* object, on which video.get of line 127 raises AttributeError.
SearchResponses ==
    {[status |-> "RequestException", has_videos |-> FALSE, videos |-> <<>>]}
    \cup {[status |-> "AttributeError", has_videos |-> TRUE, videos |-> <<>>]}
    \cup {[status |-> "ok", has_videos |-> FALSE, videos |-> <<>>]}
    \cup {[status |-> "ok", has_videos |-> TRUE, videos |-> v] :
            v \in VideoLists}

\* Line 128: `duration and min_duration <= duration <= max_duration`.
SuitableDuration(d) ==
    Truthy(d) /\ MinDuration <= d.val /\ d.val <= MaxDuration

\* Lines 114-138: the videos of suitable duration and whether an error
\* message is returned with them; `except RequestException` is the only
\* clause, so any other exception leaves the function.
search_pexels_videos(resp) ==
    IF resp.status = "RequestException"
    THEN [videos |-> <<>>, error |-> TRUE, raised |-> "none"]
    ELSE IF resp.status = "AttributeError"
    THEN [videos |-> <<>>, error |-> FALSE, raised |-> "AttributeError"]
    ELSE IF ~resp.has_videos \/ resp.videos = <<>>
    THEN [videos |-> <<>>, error |-> TRUE, raised |-> "none"]
    ELSE LET suitable_videos ==
                 SelectSeq(resp.videos,
                           LAMBDA v : SuitableDuration(v.duration))
         IN [videos |-> suitable_videos, error |-> suitable_videos = <<>>,
             raised |-> "none"]

Min(a, b) == IF a <= b THEN a ELSE b

\* Lines 207-210: random.sample draws k different positions, in any order.
Samples(population, k) ==
    {[i \in 1..k |-> population[p[i]]] :
        p \in {q \in [1..k -> 1..Len(population)] :
                 \A i, j \in 1..k : i # j => q[i] # q[j]}}

\* Lines 220-224 and 228-232: the position of the first video/mp4 entry of
\* the quality, where the loop breaks; 0 when there is none.
FirstMp4(video_files, quality) ==
    LET hit(i) == /\ video_files[i].quality = quality
                  /\ video_files[i].file_type = "video/mp4"
        hits == {i \in 1..Len(video_files) : hit(i)}
    IN IF hits = {} THEN 0
       ELSE CHOOSE i \in hits : \A j \in hits : i <= j

\* Lines 214-237: HD is looked for first; SD when that left no link; "none"
\* when download_url is still empty, and the video is skipped.
BestQuality(video_files) ==
    LET hd == FirstMp4(video_files, "hd")
        sd == FirstMp4(video_files, "sd")
    IN IF hd # 0 /\ video_files[hd].link THEN "hd"
       ELSE IF sd # 0 /\ video_files[sd].link THEN "sd"
       ELSE "none"

\* The partial file left where it is.
RemoveIfExists_Skipped(dir, path) == dir

\* Lines 295-296, 303-304, 311-312: `if os.path.exists(filepath):
\* os.remove(filepath)`.
RemoveIfExists(dir, path) == [dir EXCEPT ![path] = "absent"]

\* What yaml.safe_load gives for app.yaml (lines 41-45): None for an empty
\* file, a dict without "pexels" (also when the file is missing: {}), a dict
\* whose "pexels" is null, a dict with pexels.api_key.
Configs == {"None", "dict", "pexels_null", "pexels_key"}

\* Line 173: config.get('pexels', {}).get('api_key'), which raises
\* AttributeError on None.
ConfigApiKey(cfg) ==
    IF cfg \in {"None", "pexels_null"}
    THEN [raised |-> "AttributeError", val |-> FALSE]
    ELSE [raised |-> "none", val |-> cfg = "pexels_key"]

InitDownload ==
    /\ dl_pc = "start"
    /\ env_key \in BOOLEAN
    /\ config \in Configs
    /\ api_key = FALSE
    /\ keywords \in UNION {[1..n -> KeywordTexts] : n \in 0..MaxKeywords}
    /\ per_keyword \in 0..MaxPerKeyword
    /\ keyword_i = 0
    /\ videos_to_download = <<>>
    /\ filepath = NoPath
    /\ downloaded_videos = <<>>
    /\ files = NoFiles
    /\ searched = <<>>
    /\ attempt = NoAttempt
    /\ attempted = 0
    /\ suitable_n = 0
    /\ ProbeIdle
    /\ PlanIdle
    /\ RunIdle

\* Lines 170-193: the key is taken from the environment or, failing that,
\* from the configuration; without one the call returns [] at once.  With
\* one the output directory is made (os.makedirs raises when the path
\* cannot be made a directory) and the headers are built, config.get
\* raising AttributeError when the configuration is None.
DlStart ==
    /\ dl_pc = "start"
    /\ IF ~env_key /\ ConfigApiKey(config).raised # "none"
       THEN /\ dl_pc' = "raised"
            /\ UNCHANGED <<api_key, keyword_i>>
       ELSE /\ api_key' = (env_key \/ ConfigApiKey(config).val)
            /\ IF ~api_key'
               THEN /\ dl_pc' = "returned"
                    /\ UNCHANGED keyword_i
               ELSE \E makedirs_ok \in BOOLEAN :
                      IF ~makedirs_ok \/ config = "None"
                      THEN /\ dl_pc' = "raised"
                           /\ UNCHANGED keyword_i
                      ELSE /\ dl_pc' = "search"
                           /\ keyword_i' = 1
    /\ UNCHANGED <<env_key, config, keywords, per_keyword, videos_to_download,
                   filepath, downloaded_videos, files, searched, attempt,
                   attempted, suitable_n, probeVars, planVars, runVars,
                   overlayVars>>

\* Lines 196-210: the keyword is searched; an error skips to the next
\* keyword, otherwise a sample of the suitable videos is drawn.  The call of
\* line 200 stands in no try block: an exception that leaves
\* search_pexels_videos leaves search_and_download_videos too.
DlSearch ==
    /\ dl_pc = "search"
    /\ keyword_i <= Len(keywords)
    /\ searched' = Append(searched, keywords[keyword_i])
    /\ attempted' = 0
    /\ \E resp \in SearchResponses :
         LET found == search_pexels_videos(resp) IN
         /\ suitable_n' = Len(found.videos)
         /\ IF found.raised # "none"
            THEN /\ dl_pc' = "raised"
                 /\ UNCHANGED <<keyword_i, videos_to_download>>
            ELSE IF found.error
            THEN /\ keyword_i' = keyword_i + 1
                 /\ UNCHANGED <<dl_pc, videos_to_download>>
            ELSE /\ videos_to_download' \in
                      Samples(found.videos,
                              Min(per_keyword, Len(found.videos)))
                 /\ dl_pc' = "video"
                 /\ UNCHANGED keyword_i
    /\ UNCHANGED <<env_key, config, api_key, keywords, per_keyword, filepath,
                   downloaded_videos, files, attempt, probeVars, planVars,
                   runVars, overlayVars>>

\* Lines 213-243 and 317: the next video of the sample; one without a usable
\* file is skipped; after the last one the for loop goes to the next keyword.
\* The loops of lines 220 and 229 stand in no try block: on "video_files":
\* null they raise TypeError, which leaves the call.
DlVideo ==
    /\ dl_pc = "video"
    /\ IF videos_to_download = <<>>
       THEN /\ keyword_i' = keyword_i + 1
            /\ dl_pc' = "search"
            /\ UNCHANGED <<videos_to_download, filepath, attempted>>
       ELSE IF Head(videos_to_download).video_files.none
       THEN /\ dl_pc' = "raised"
            /\ UNCHANGED <<keyword_i, videos_to_download, filepath,
                           attempted>>
       ELSE LET video == Head(videos_to_download)
                quality == BestQuality(video.video_files.val)
            IN /\ videos_to_download' = Tail(videos_to_download)
               /\ UNCHANGED keyword_i
               /\ IF quality = "none"
                  THEN UNCHANGED <<dl_pc, filepath, attempted>>
                  ELSE /\ filepath' =
                            Path(keywords[keyword_i], video.id, quality)
                       /\ attempted' = attempted + 1
                       /\ dl_pc' = "get"
    /\ UNCHANGED <<env_key, config, api_key, keywords, per_keyword,
                   downloaded_videos, files, searched, attempt, suitable_n,
                   probeVars, planVars, runVars, overlayVars>>

\* Lines 291-313: the three except clauses, for Timeout and TimeoutError, for
\* RequestException and for Exception; each removes the file at the target
\* path and goes on with the next video.
DownloadFails(exception) ==
    /\ exception \in {"Timeout", "TimeoutError", "RequestException",
                      "Exception"}
    /\ files' = RemoveIfExists(files, filepath)
    /\ attempt' = [path |-> filepath, result |-> "failed"]
    /\ dl_pc' = "video"
    /\ UNCHANGED downloaded_videos

\* Lines 247-265: the request is sent and the file opened for writing, which
\* empties a file that is there already.
DlGet ==
    /\ dl_pc = "get"
    /\ \E outcome \in {"ok", "Timeout", "RequestException", "Exception"} :
         IF outcome = "ok"
         THEN /\ files' = [files EXCEPT ![filepath] = "partial"]
              /\ dl_pc' = "write"
              /\ UNCHANGED <<downloaded_videos, attempt>>
         ELSE DownloadFails(outcome)
    /\ UNCHANGED <<env_key, config, api_key, keywords, per_keyword, keyword_i,
                   videos_to_download, filepath, searched, attempted,
                   suitable_n, probeVars, planVars, runVars, overlayVars>>

\* Lines 265-289: the chunks are written; an exception while writing (the
\* read timeout, the overall timeout of 60 seconds, a broken connection, a
\* full disk) leaves the with block and reaches an except clause; otherwise
\* the path joins downloaded_videos.
DlWrite ==
    /\ dl_pc = "write"
    /\ \E outcome \in {"ok", "Timeout", "TimeoutError", "RequestException",
                       "Exception"} :
         IF outcome = "ok"
         THEN /\ files' = [files EXCEPT ![filepath] = "complete"]
              /\ downloaded_videos' = Append(downloaded_videos, filepath)
              /\ attempt' = [path |-> filepath, result |-> "ok"]
              /\ dl_pc' = "video"
         ELSE DownloadFails(outcome)
    /\ UNCHANGED <<env_key, config, api_key, keywords, per_keyword, keyword_i,
                   videos_to_download, filepath, searched, attempted,
                   suitable_n, probeVars, planVars, runVars, overlayVars>>

\* Line 320: the keywords are exhausted and downloaded_videos is returned.
DlReturn ==
    /\ dl_pc = "search"
    /\ keyword_i > Len(keywords)
    /\ dl_pc' = "returned"
    /\ UNCHANGED <<env_key, config, api_key, keywords, per_keyword, keyword_i,
                   videos_to_download, filepath, downloaded_videos, files,
                   searched, attempt, attempted, suitable_n, probeVars,
                   planVars, runVars, overlayVars>>

NextDownload ==
    \/ DlStart
    \/ DlSearch
    \/ DlVideo
    \/ DlGet
    \/ DlWrite
    \/ DlReturn

SpecDownload == InitDownload /\ [][NextDownload]_vars

\* The call runs in one thread, and what it waits for with a limit comes to
\* an end: the download request has the timeouts (5, 30) of line 255 and the
\* writing loop the 60 seconds of line 268.  The search request of line 116
\* is sent without a timeout, so nothing in the code makes DlSearch end.
SpecDownloadLive ==
    /\ SpecDownload
    /\ WF_vars(DlStart \/ DlVideo \/ DlGet \/ DlWrite \/ DlReturn)

(***************************************************************************)
(* Properties                                                              *)
(***************************************************************************)
\* How often x occurs in the sequence q.
Count(q, x) == Cardinality({k \in 1..Len(q) : q[k] = x})

\* Some encoder invocation of the run exited non-zero.
EncoderFailed == \E k \in 1..Len(calls) : ~calls[k].ok

\* The stages whose encoder has been invoked.
Invoked == {calls[k].stage : k \in 1..Len(calls)}

\* C1 (SpecPlan): for a non-empty clip list and a target duration > 0, the
\* plan create_video_list_file returns has a summed duration >= the target.
C1_PlanCoversTarget ==
    (plan_pc = "returned" /\ videos # <<>> /\ plan_target > 0)
        => PlanDuration(final_video_list, video_info_list) >= plan_target

\* A plan that needed more than one pass over the clips has been returned.
C1_Witness ==
    /\ plan_pc = "returned"
    /\ plan_target > 0
    /\ Len(final_video_list) > Len(videos)
    /\ PlanDuration(final_video_list, video_info_list) >= plan_target

\* C2 (Spec): when an intro clip is supplied and exists, the inputs handed to
\* the concatenation hold the normalized intro exactly once, in first place.
C2_IntroOnceFirst ==
    (pc = "concat" /\ has_intro)
        => /\ input_videos # <<>>
           /\ input_videos[1] = Intro
           /\ Count(input_videos, Intro) = 1

\* C3 (Spec): a run ends either returning a non-failure value with the
\* complete video at the output path, or returning the failure signal with
\* no file written there; a failed overlay makes the run return failure.
C3_FileOrFailure ==
    pc = "done"
        => /\ \/ result = "output_file" /\ output.state = "complete"
              \/ result = "None" /\ output = NoFile
           /\ overlay_result = "None" => result = "None"

\* C4 (Spec): the output path never holds a partially written file.
C4_NoPartialOutput == output.state # "partial"

\* C5 (Spec): with the script present and the audio absent, a run that
\* succeeds has applied the overlay to the silent composed video, and the
\* captioned video is the output.
C5_OverlayWithoutAudio ==
    (pc = "done" /\ result = "output_file" /\ script_exists /\ ~audio_exists)
        => /\ overlay_input = "temp_combined"
           /\ "overlay_encode" \in Invoked
           /\ output.content = "captioned"

\* C6 (Spec): an encoder that exits non-zero is the last one invoked, and the
\* run returns the failure signal.
C6_EncoderFailureAborts ==
    /\ \A k \in 1..Len(calls) : ~calls[k].ok => k = Len(calls)
    /\ (pc = "done" /\ EncoderFailed) => result = "None"

\* C7 (Spec): with no clip in the video directory the run returns the failure
\* signal and has invoked neither the inspector nor an encoder, whatever the
\* intro and the audio are.
C7_NoClipsNoSubprocess ==
    n_files = 0
        => /\ calls = <<>>
           /\ probes = {}
           /\ pc \in {"start", "done"}
           /\ pc = "done" => result = "None"

\* A run with an intro and an audio file but no clip has ended.
C7_Witness ==
    /\ n_files = 0
    /\ intro_exists
    /\ audio_exists
    /\ pc = "done"
    /\ result = "None"

\* C8 (SpecProbe): get_video_info never raises; it returns a numeric
\* duration >= 0, a width > 0 and a height > 0; and when the inspector fails
\* or its answer cannot be used, exactly the record 0, 1920, 1080.
C8_ProbeTotal ==
    probe_pc = "done"
        => /\ probe_result.raised = "none"
           /\ ~probe_result.duration.none
           /\ probe_result.duration.val >= 0
           /\ probe_result.width > 0
           /\ probe_result.height > 0
           /\ ProbeException(probe_stream) # "none"
                => probe_result = SentinelInfo

\* C9 (SpecPlan): with an empty clip list or a target duration <= 0 the plan
\* stays empty and is returned empty.
C9_EmptyPlan ==
    (videos = <<>> \/ plan_target <= 0)
        => /\ final_video_list = <<>>
           /\ plan_pc \notin {"for"}

\* The planner has returned for clips with a target duration <= 0.
C9_Witness ==
    /\ plan_pc = "returned"
    /\ videos # <<>>
    /\ plan_target <= 0
    /\ final_video_list = <<>>

\* C10 (Spec): an absent audio, script or intro is skipped, not an error: the
\* stage that depends on it is never invoked, a run fails only for want of
\* clips or because something it did invoke failed, and a successful run
\* leaves the muxed file at the output path when there is no script, the
\* silent composed video when there is no audio.
C10_MissingOptionalInput ==
    /\ ~audio_exists => "mux" \notin Invoked /\ "audio_duration" \notin probes
    /\ ~script_exists
         => /\ "overlay_encode" \notin Invoked
            /\ overlay_result = "not_called"
            /\ probes \cap {"overlay_duration", "overlay_info"} = {}
    /\ ~intro_exists
         => "intro_normalize" \notin Invoked /\ "intro_duration" \notin probes
    /\ (pc = "done" /\ result = "None")
         => \/ n_files = 0
            \/ EncoderFailed
            \/ exc \in {"IndexError", "TypeError"}
    /\ (pc = "done" /\ result = "output_file" /\ audio_exists /\ ~script_exists)
         => output = [state |-> "complete", content |-> "muxed"]
    /\ (pc = "done" /\ result = "output_file" /\ ~audio_exists)
         => output = [state |-> "complete", content |-> "silent"]

\* A run without audio, script and intro has succeeded.
C10_Witness ==
    /\ pc = "done"
    /\ ~audio_exists
    /\ ~script_exists
    /\ ~intro_exists
    /\ result = "output_file"
    /\ output = [state |-> "complete", content |-> "silent"]

\* C11 (Spec): once add_scrolling_text has returned, by whichever path, none
\* of the temporary text files it created still exists.
C11_TextFilesRemoved ==
    overlay_result \in {"output_file", "None"}
        => ~temp_text_file /\ ~wrapped_text_file

\* The summed duration, as probed at lines 449-459, of the inputs of the
\* concatenation: the intro where it is among them, and the normalized clips
\* as many times as the whole list was added.
InputsDuration ==
    LET intros == Count(input_videos, Intro)
        copies == (Len(input_videos) - intros) \div Len(scaled_videos)
    IN intros * intro_duration + copies * total_content_duration

\* C12 (Spec): in a run with at least one clip and a target duration > 0 the
\* inputs handed to the concatenation last, together, at least the target
\* duration, so that the track trimmed to the target is exactly that long.
C12_InputsCoverTarget ==
    (pc = "concat" /\ scaled_videos # <<>> /\ target_duration > 0)
        => InputsDuration >= target_duration

\* C13 (SpecOverlay): for a duration > 0 the scroll speed is
\* (estimatedLines * fontSize * 1.5) / duration with estimatedLines the
\* character count over 50, unrounded: speed * duration * 50 equals
\* characters * fontSize * 1.5 (both sides doubled here), whatever the width
\* of the video and the wrapping of the text are.
C13_ScrollSpeed ==
    (overlay_result # "not_called" /\ Truthy(duration) /\ duration.val > 0)
        => /\ scroll_speed.den # 0
           /\ scroll_speed.num * duration.val * 50 * 2
                = script_content * font_size * 3 * scroll_speed.den

\* The speed has been computed for the longest script in a small font, on a
\* narrow video lasting more than one second, and the text has been wrapped.
C13_Witness ==
    /\ pc = "overlay_encode"
    /\ script_content = MaxScript
    /\ font_size # DefaultFontSize
    /\ video_width # DefaultWidth
    /\ chars_per_line > 0
    /\ duration.val > 1
    /\ scroll_speed.num > 0

\* The content part of the inputs of the concatenation.
ContentInputs == SelectSeq(input_videos, LAMBDA x : x # Intro)

\* C14 (Spec): the run starts with the planner (no encoder is invoked before
\* create_video_list_file has returned), and the content clips handed to the
\* concatenation are the plan the planner produced.
C14_PlannerFirst ==
    /\ calls # <<>> => plan_pc = "returned"
    /\ pc = "concat" => ContentInputs = final_video_list

\* The plan without its last entry.
AllButLast(plan) == SubSeq(plan, 1, Len(plan) - 1)

\* C15 (SpecPlan): the planner stops at the first entry that makes the
\* running sum reach the target: at every moment the entries before the last
\* one sum to less than the target, so nothing is appended once the sum is
\* >= the target; and the running sum is the sum of the plan.
C15_StopsAtFirstReach ==
    (final_video_list # <<>>)
        => /\ PlanDuration(AllButLast(final_video_list), video_info_list)
                < plan_target
           /\ current_duration
                = PlanDuration(final_video_list, video_info_list)

\* A plan has been returned whose last pass was cut short by an entry that
\* overshoots the target.
C15_Witness ==
    /\ plan_pc = "returned"
    /\ Len(final_video_list) > Len(videos)
    /\ Len(final_video_list) % Len(videos) # 0
    /\ PlanDuration(final_video_list, video_info_list) > plan_target
    /\ PlanDuration(AllButLast(final_video_list), video_info_list)
         < plan_target

\* C16 (Spec): with a runway target - intro duration > 0 and a content total
\* > 0, the content part of the inputs of the concatenation is the normalized
\* clips, in their order, repeated k whole times: k is the least number of
\* copies that cover the runway when one copy is shorter than it, and 1
\* otherwise.
C16_WholeCopies ==
    LET remaining_duration == target_duration - intro_duration
        n == Len(scaled_videos)
        k == Len(ContentInputs) \div n
    IN (pc = "concat" /\ remaining_duration > 0 /\ total_content_duration > 0)
        => /\ Len(ContentInputs) = k * n
           /\ \A j \in 1..Len(ContentInputs) :
                ContentInputs[j] = scaled_videos[((j - 1) % n) + 1]
           /\ IF total_content_duration < remaining_duration
              THEN /\ k * total_content_duration >= remaining_duration
                   /\ (k - 1) * total_content_duration < remaining_duration
              ELSE k = 1

\* After an intro, two clips have been added more than once, and the runway
\* is not a whole number of copies.
C16_Witness ==
    /\ pc = "concat"
    /\ scaled_intro
    /\ intro_duration > 0
    /\ Len(scaled_videos) = 2
    /\ total_content_duration > 0
    /\ total_content_duration < target_duration - intro_duration
    /\ (target_duration - intro_duration) % total_content_duration # 0
    /\ Len(ContentInputs) >= 2 * Len(scaled_videos)
    /\ input_videos[1] = Intro

\* C17 (Spec): a probe failure is never fatal: a run that has probed the
\* duration of the normalized intro or of a normalized clip returns the
\* failure signal only when an encoder failed, never because of the probe.
C17_ProbeNeverFatal ==
    (/\ pc = "done"
     /\ result = "None"
     /\ probes \cap {"intro_duration", "content_duration"} # {})
        => EncoderFailed

\* C18 (SpecPlan): the planner terminates for every non-empty clip list and
\* target > 0, the clips of duration 0 included: whenever a pass has ended
\* short of the target, the running sum has moved towards it.  (With the sum
\* still 0 the loop is back in the state it began in, and goes round for
\* ever.)
C18_PassesAdvance ==
    (/\ plan_pc = "while"
     /\ final_video_list # <<>>
     /\ LoopContinues(current_duration, plan_target))
        => current_duration > 0

\* C19 (SpecPlan): every pass of the planner is a permutation of the whole
\* clip list (the last one possibly cut short), so in every prefix of the plan
\* the numbers of occurrences of two clips differ by at most 1, and a clip
\* comes for the (m+1)-th time only when every clip has come m times.
C19_BalancedPrefixes ==
    LET n == Len(videos)
        clips == 1..n
        Prefix(j) == SubSeq(final_video_list, 1, j)
    IN /\ \A p \in 0..(Len(final_video_list) - 1) :
            \A i, j \in 1..n :
                (/\ p * n + i <= Len(final_video_list)
                 /\ p * n + j <= Len(final_video_list)
                 /\ i # j)
                    => final_video_list[p * n + i] # final_video_list[p * n + j]
       /\ \A j \in 0..Len(final_video_list) :
            \A a, b \in clips :
                Count(Prefix(j), a) - Count(Prefix(j), b) <= 1
       /\ \A j \in 1..Len(final_video_list) :
            \A b \in clips :
                Count(Prefix(j - 1), b)
                    >= Count(Prefix(j - 1), final_video_list[j])

\* A plan of more than one pass over three clips has been returned, the second
\* pass beginning with the clip the first one ended with.
C19_Witness ==
    /\ plan_pc = "returned"
    /\ Len(videos) = 3
    /\ Len(final_video_list) > 3
    /\ final_video_list[4] = final_video_list[3]
    /\ \A a, b \in 1..3 :
         Count(final_video_list, a) - Count(final_video_list, b) <= 1

\* C20 (Spec): when combine_videos_with_audio has returned, with success or
\* with failure, the temporary directory holding the intermediate files no
\* longer exists and no other temporary file of the run is left: only the
\* final output survives.
C20_OnlyOutputSurvives ==
    pc = "done"
        => /\ ~temp_dir.exists
           /\ temp_dir.files = {}
           /\ ~temp_text_file
           /\ ~wrapped_text_file

\* C21 (SpecDownload): a path joins the returned list only in the step that
\* ends its download without an exception, the file then being complete at
\* that path; and the step that ends a download with an exception (the
\* request or the writing failed, by a timeout, the limit of 60 seconds, an
\* HTTP error or anything else) leaves no file at the target path and the
\* list as it was.
C21_OnlyCompletedReturned ==
    [][/\ downloaded_videos' # downloaded_videos
            => /\ dl_pc = "write"
               /\ attempt'.result = "ok"
               /\ downloaded_videos' = Append(downloaded_videos, filepath)
               /\ files'[filepath] = "complete"
       /\ (dl_pc \in {"get", "write"} /\ attempt'.result = "failed"
                                      /\ dl_pc' = "video")
            => /\ files'[filepath] = "absent"
               /\ attempt'.path = filepath
               /\ downloaded_videos' = downloaded_videos]_vars

\* A download has failed after another one had completed, and the call went
\* on to return.
C21_Witness ==
    /\ dl_pc = "returned"
    /\ attempt.result = "failed"
    /\ downloaded_videos # <<>>
    /\ files[attempt.path] = "absent"

IsPrefix(s, t) ==
    /\ Len(s) <= Len(t)
    /\ \A i \in 1..Len(s) : s[i] = t[i]

\* C22 (SpecDownloadLive): once the loop over the keywords has begun (an
\* API key is there, the configuration and the output directory are usable),
\* no failure of a search or of a download ends the call with an exception;
\* the keywords are searched in the order of the input list, for each of
\* them at most min(per_keyword, number of suitable results) downloads are
\* attempted, the call returns in the end, and every keyword has been
\* searched by then.
C22_ToleratesFailures ==
    /\ [](/\ keyword_i >= 1 => dl_pc # "raised"
          /\ IsPrefix(searched, keywords)
          /\ attempted <= Min(per_keyword, suitable_n)
          /\ (dl_pc = "returned" /\ api_key) => searched = keywords)
    /\ <>(dl_pc = "returned" \/ (dl_pc = "raised" /\ keyword_i = 0))

====
